---- MODULE Spec2Model ----
(***************************************************************************)
(* Baby-step giant-step solvers for the discrete logarithm problem (DLP)   *)
(* and the semidirect discrete logarithm problem (SDLP), the period finder *)
(* and the semidirect-product element algebra of classical-sdlp.           *)
(*                                                                         *)
(* bsgs.py is read with `^` as exponentiation, as the Sage preparser       *)
(* reads it (the docstrings and main.py use it as a power).                *)
(***************************************************************************)
EXTENDS Integers, Sequences, FiniteSets, TLC

\* ------------------------------------------------------------------ bounds
\* largest bound handed to bsgs_dlp / bsgs_sdlp
MaxBound == 10
\* largest n handed to find_period
MaxN == 12
\* largest planted exponent t of the driver
MaxT == 13

Nil == "nil"

\* ------------------------------------------------------- integer helpers
\* a mod p for any integer a, p > 0
Mod(a, p) == ((a % p) + p) % p

\* ceil(sqrt(bound)) for a positive integer bound
CeilSqrt(b) == CHOOSE r \in 0..b : r * r >= b /\ (r = 0 \/ (r - 1) * (r - 1) < b)

RECURSIVE Gcd(_, _)
Gcd(a, b) == IF b = 0 THEN a ELSE Gcd(b, a % b)

RECURSIVE IntPow(_, _, _)
\* a^k mod p, k >= 0
IntPow(a, k, p) == IF k = 0 THEN 1 % p ELSE (a * IntPow(a, k - 1, p)) % p

\* inverse of a unit a modulo q (q = 1: the zero ring, whose only element is 0)
InvMod(a, q) == IF q = 1 THEN 0 ELSE CHOOSE b \in 0..(q - 1) : (a * b) % q = 1 % q

Units(q) == IF q = 1 THEN {0} ELSE {a \in 1..(q - 1) : Gcd(a, q) = 1}

\* ------------------------------------------------------------- platforms
\* GF(p)* : the multiplicative group of a prime field (main.py, test_finite_field)
GFPrimes == {3, 5, 7}
\* E : y^2 = x^3 + 1 over GF(p) (main.py, test_elliptic_curve)
ECPrimes == {5}
\* F_p* x| Aut(F_p*) (groups/finite_field.py)
ZpPrimes == {5, 7}
\* F_p^n x| GL(n, F_p) (groups/elementary_abelian.py), as <<p, n>>
EAGShapes == {<<2, 2>>, <<3, 1>>}

Platform(kind, p, n) == [kind |-> kind, p |-> p, n |-> n]

CyclicPlatforms ==
    {Platform("GF", p, 0) : p \in GFPrimes} \cup {Platform("EC", p, 0) : p \in ECPrimes}

SemidirectPlatforms ==
    {Platform("Zp", p, 0) : p \in ZpPrimes}
        \cup {Platform("EAG", s[1], s[2]) : s \in EAGShapes}

\* ------------------------------------------------- elliptic curve points
ECZero == <<>>

ECPoints(p) ==
    {ECZero} \cup {P \in (0..(p - 1)) \X (0..(p - 1)) :
                      (P[2] * P[2]) % p = (P[1] * P[1] * P[1] + 1) % p}

ECNeg(p, P) == IF P = ECZero THEN ECZero ELSE <<P[1], Mod(0 - P[2], p)>>

ECAdd(p, P, Q) ==
    IF P = ECZero THEN Q
    ELSE IF Q = ECZero THEN P
    ELSE IF P[1] = Q[1] /\ (P[2] + Q[2]) % p = 0 THEN ECZero
    ELSE LET lam == IF P = Q
                    THEN (3 * P[1] * P[1] * InvMod((2 * P[2]) % p, p)) % p
                    ELSE (Mod(Q[2] - P[2], p) * InvMod(Mod(Q[1] - P[1], p), p)) % p
             x3 == Mod(lam * lam - P[1] - Q[1], p)
             y3 == Mod(lam * (P[1] - x3) - P[2], p)
         IN <<x3, y3>>

\* ------------------------------------------------ vectors and matrices
RECURSIVE Dot(_, _, _, _)
\* sum of a[j] * b[j] for j in 1..k, modulo p
Dot(p, a, b, k) == IF k = 0 THEN 0 ELSE (Dot(p, a, b, k - 1) + a[k] * b[k]) % p

Vectors(p, n) == [1..n -> 0..(p - 1)]
Matrices(p, n) == [1..n -> [1..n -> 0..(p - 1)]]

RECURSIVE VecZeroTo(_)
VecZeroTo(k) == IF k = 0 THEN <<>> ELSE Append(VecZeroTo(k - 1), 0)
VecZero(p, n) == VecZeroTo(n)

RECURSIVE VecAddTo(_, _, _, _)
VecAddTo(p, a, b, k) ==
    IF k = 0 THEN <<>> ELSE Append(VecAddTo(p, a, b, k - 1), (a[k] + b[k]) % p)
VecAdd(p, n, a, b) == VecAddTo(p, a, b, n)

RECURSIVE VecNegTo(_, _, _)
VecNegTo(p, a, k) == IF k = 0 THEN <<>> ELSE Append(VecNegTo(p, a, k - 1), Mod(0 - a[k], p))
VecNeg(p, n, a) == VecNegTo(p, a, n)

RECURSIVE UnitRowTo(_, _)
UnitRowTo(r, k) == IF k = 0 THEN <<>> ELSE Append(UnitRowTo(r, k - 1), IF r = k THEN 1 ELSE 0)
RECURSIVE MatOneTo(_, _)
MatOneTo(n, r) == IF r = 0 THEN <<>> ELSE Append(MatOneTo(n, r - 1), UnitRowTo(r, n))
MatOne(p, n) == MatOneTo(n, n)

RECURSIVE MatVecTo(_, _, _, _, _)
MatVecTo(p, n, M, a, r) ==
    IF r = 0 THEN <<>> ELSE Append(MatVecTo(p, n, M, a, r - 1), Dot(p, M[r], a, n))
\* M * a, the matrix acting on a column vector
MatVec(p, n, M, a) == MatVecTo(p, n, M, a, n)

RECURSIVE ColumnTo(_, _, _)
ColumnTo(N, c, k) == IF k = 0 THEN <<>> ELSE Append(ColumnTo(N, c, k - 1), N[k][c])
RECURSIVE MatRowTo(_, _, _, _, _)
MatRowTo(p, n, row, N, c) ==
    IF c = 0 THEN <<>>
    ELSE Append(MatRowTo(p, n, row, N, c - 1), Dot(p, row, ColumnTo(N, c, n), n))
RECURSIVE MatMulTo(_, _, _, _, _)
MatMulTo(p, n, M, N, r) ==
    IF r = 0 THEN <<>> ELSE Append(MatMulTo(p, n, M, N, r - 1), MatRowTo(p, n, M[r], N, n))
MatMul(p, n, M, N) == MatMulTo(p, n, M, N, n)

GL(p, n) == {M \in Matrices(p, n) : \E N \in Matrices(p, n) : MatMul(p, n, M, N) = MatOne(p, n)}
MatInv(p, n, M) == CHOOSE N \in Matrices(p, n) : MatMul(p, n, M, N) = MatOne(p, n)

\* ------------------------------------------- cyclic groups (DLP targets)
\* "*" on GF(p), "+" on the curve: the operation the group realization offers
NativeOp(G) == IF G.kind = "GF" THEN "*" ELSE "+"

CycElems(G) == IF G.kind = "GF" THEN 1..(G.p - 1) ELSE ECPoints(G.p)

\* G.one() (multiplicative) / G.zero() (additive)
CycId(G) == IF G.kind = "GF" THEN 1 ELSE ECZero

\* a * b (multiplicative) / a + b (additive)
CycOp(G, a, b) == IF G.kind = "GF" THEN (a * b) % G.p ELSE ECAdd(G.p, a, b)

CycInv(G, a) == IF G.kind = "GF" THEN InvMod(a, G.p) ELSE ECNeg(G.p, a)

RECURSIVE CycPowNat(_, _, _)
CycPowNat(G, a, k) == IF k = 0 THEN CycId(G) ELSE CycOp(G, CycPowNat(G, a, k - 1), a)

\* g^k (multiplicative) / k*g (additive), k any integer
CycPow(G, a, k) == IF k >= 0 THEN CycPowNat(G, a, k) ELSE CycPowNat(G, CycInv(G, a), 0 - k)

\* ------------------------------------------------- semidirect elements
Elem(g, x) == [g |-> g, x |-> x]

SdElems(G) ==
    IF G.kind = "Zp"
    THEN {Elem(g, x) : g \in 1..(G.p - 1), x \in Units(G.p - 1)}
    ELSE {Elem(g, x) : g \in Vectors(G.p, G.n), x \in GL(G.p, G.n)}

\* SemidirectProductZp.one / SemidirectProductEAG.one
SdOne(G) ==
    IF G.kind = "Zp"
    THEN Elem(1, 1 % (G.p - 1))
    ELSE Elem(VecZero(G.p, G.n), MatOne(G.p, G.n))

\* SemidirectProductElementZp._mul_
ZpMul(p, a, b) == Elem((a.g * IntPow(b.g, a.x, p)) % p, (a.x * b.x) % (p - 1))

\* SemidirectProductElementEAG._mul_
EAGMul(p, n, a, b) ==
    Elem(VecAdd(p, n, a.g, MatVec(p, n, a.x, b.g)), MatMul(p, n, a.x, b.x))

SdMul(G, a, b) == IF G.kind = "Zp" THEN ZpMul(G.p, a, b) ELSE EAGMul(G.p, G.n, a, b)

\* mutant of ZpInvert: the base component inverted without the twist by new_x
ZpInvertUntwisted(p, a) ==
    LET new_x == InvMod(a.x, p - 1)
        new_g == InvMod(a.g, p)
    IN Elem(new_g, new_x)

\* SemidirectProductElementZp.__invert__
ZpInvert(p, a) ==
    LET new_x == InvMod(a.x, p - 1)
        new_g == IntPow(a.g, Mod(0 - new_x, p - 1), p)
    IN Elem(new_g, new_x)

\* SemidirectProductElementEAG.__invert__
EAGInvert(p, n, a) ==
    LET new_x == MatInv(p, n, a.x)
        new_g == VecNeg(p, n, MatVec(p, n, new_x, a.g))
    IN Elem(new_g, new_x)

SdInvert(G, a) == IF G.kind = "Zp" THEN ZpInvert(G.p, a) ELSE EAGInvert(G.p, G.n, a)

RECURSIVE SdPowSeq(_, _, _)
\* the powers a^0 .. a^k, each the product of the one before with a
SdPowSeq(G, a, k) ==
    IF k = 0 THEN <<SdOne(G)>>
    ELSE LET s == SdPowSeq(G, a, k - 1)
         IN Append(s, SdMul(G, s[k], a))

SdPowNat(G, a, k) == SdPowSeq(G, a, k)[k + 1]

\* a**k for any integer k: a negative power is the power of the inverse
SdPow(G, a, k) == IF k >= 0 THEN SdPowNat(G, a, k) ELSE SdPowNat(G, SdInvert(G, a), 0 - k)

\* v = (1, sigma^-1), the partner of u = (g, sigma)
Partner(G, a) == Elem(SdOne(G).g, SdInvert(G, a).x)

\* w = G.one(); w.g = base
WithBase(G, base) == Elem(base, SdOne(G).x)

\* --------------------------------------------------------- find_period
RECURSIVE Multiplicity(_, _)
Multiplicity(n, p) == IF n % p = 0 THEN 1 + Multiplicity(n \div p, p) ELSE 0

RECURSIVE FactorFrom(_, _)
\* the prime factorisation of n, primes >= p, as <<prime, exponent>> in ascending order
FactorFrom(n, p) ==
    IF n = 1 THEN <<>>
    ELSE IF n % p = 0
         THEN LET e == Multiplicity(n, p)
              IN <<<<p, e>>>> \o FactorFrom(n \div IntPow(p, e, n + 1), p + 1)
         ELSE FactorFrom(n, p + 1)

\* ZZ(n).factor()
Factor(n) == FactorFrom(n, 2)

\* the test of the strip loop: (u**l).g == u.parent().one().g
BaseIsOne(G, a, l) == SdPow(G, a, l).g = SdOne(G).g

RECURSIVE StripOffByOne(_, _, _, _, _)
\* mutant of Strip: the loop condition reads e >= 0
StripOffByOne(G, a, length, p, e) ==
    IF e >= 0 /\ BaseIsOne(G, a, length \div p)
    THEN StripOffByOne(G, a, length \div p, p, e - 1)
    ELSE length

\* mutant of Strip: an if in place of the while, one factor stripped per prime
StripOnce(G, a, length, p, e) ==
    IF e > 0 /\ BaseIsOne(G, a, length \div p) THEN length \div p ELSE length

RECURSIVE Strip(_, _, _, _, _)
\* the while loop for one prime p of exponent e
Strip(G, a, length, p, e) ==
    IF e > 0 /\ BaseIsOne(G, a, length \div p)
    THEN Strip(G, a, length \div p, p, e - 1)
    ELSE length

\* mutant of StripAll: the return sits inside the for loop, only the first factor is tried
StripAllFirstOnly(G, a, length, facs) ==
    IF facs = <<>> THEN length ELSE Strip(G, a, length, facs[1][1], facs[1][2])

RECURSIVE StripAll(_, _, _, _)
\* the for loop over the factors
StripAll(G, a, length, facs) ==
    IF facs = <<>> THEN length
    ELSE StripAll(G, a, Strip(G, a, length, facs[1][1], facs[1][2]), Tail(facs))

find_period(G, a, n) == StripAll(G, a, n, Factor(n))

\* ---------------------------------------------------------------- state
VARIABLES
    pc,         \* position: "idle", "dispatch", "baby", "giant", "done"
    fn,         \* the function called: bsgs_dlp, bsgs_sdlp, find_period, invert
    G,          \* the group (platform)
    operation,  \* bsgs_dlp: the operation string
    g, h,       \* bsgs_dlp: base and target
    u, v, w,    \* bsgs_sdlp: base (u, v) and target; find_period and invert: u
    bound,      \* bsgs_dlp / bsgs_sdlp: the bound
    n,          \* find_period: the claimed multiple of the period
    t,          \* driver: the planted exponent
    m,          \* ceil(sqrt(bound))
    T,          \* the baby-step table, a function element -> index
    temp,       \* the running element
    i,          \* the loop index
    gm_inv,     \* gm_inv / gm_neg (bsgs_dlp), um_inv (bsgs_sdlp)
    vm_inv,     \* vm_inv (bsgs_sdlp)
    baby,       \* number of baby-step loop bodies run
    giant,      \* number of giant-step loop bodies run
    ret         \* the outcome: [kind, val]

vars == <<pc, fn, G, operation, g, h, u, v, w, bound, n, t, m, T, temp, i,
          gm_inv, vm_inv, baby, giant, ret>>

NoRet == [kind |-> "none", val |-> 0]
Return(x) == [kind |-> "value", val |-> x]
\* raise ValueError(... does not exist up to the bound ...)
NotFound == [kind |-> "NotFound", val |-> 0]
\* raise ValueError("Operation must be either '*' or '+'")
InvalidOperation == [kind |-> "InvalidOperation", val |-> 0]

EmptyTable == [x \in {} |-> 0]
\* T[key] = idx
Store(tab, key, idx) == [x \in DOMAIN tab \cup {key} |-> IF x = key THEN idx ELSE tab[x]]

Init ==
    /\ pc = "idle" /\ fn = Nil /\ G = Nil /\ operation = Nil
    /\ g = Nil /\ h = Nil /\ u = Nil /\ v = Nil /\ w = Nil
    /\ bound = 0 /\ n = 0 /\ t = 0 /\ m = 0 /\ T = EmptyTable
    /\ temp = Nil /\ i = 0 /\ gm_inv = Nil /\ vm_inv = Nil
    /\ baby = 0 /\ giant = 0 /\ ret = NoRet

\* ------------------------------------------------------------- bsgs_dlp
\* strings that are not an operation of bsgs_dlp
BadOperations == {"?", "x"}

\* bsgs_dlp(G, h, g, bound, operation): entry, m = ceil(sqrt(bound)), T = {}
CallDlp ==
    /\ pc = "idle"
    /\ \E GG \in CyclicPlatforms :
         \E gg \in CycElems(GG), hh \in CycElems(GG), b \in 1..MaxBound,
            o \in {NativeOp(GG)} \cup BadOperations :
           /\ G' = GG /\ g' = gg /\ h' = hh /\ bound' = b /\ operation' = o
           /\ m' = CeilSqrt(b)
    /\ fn' = "bsgs_dlp" /\ T' = EmptyTable /\ pc' = "dispatch"
    /\ UNCHANGED <<u, v, w, n, t, temp, i, gm_inv, vm_inv, baby, giant, ret>>

\* mutant of DlpDispatch: every operation other than "*" is taken as additive
DlpDispatchElse ==
    /\ pc = "dispatch" /\ fn = "bsgs_dlp"
    /\ temp' = CycId(G) /\ i' = 0 /\ pc' = "baby" /\ ret' = ret
    /\ UNCHANGED <<fn, G, operation, g, h, u, v, w, bound, n, t, m, T,
                   gm_inv, vm_inv, baby, giant>>

\* if operation == "*": ... elif operation == "+": ... else: raise
DlpDispatch ==
    /\ pc = "dispatch" /\ fn = "bsgs_dlp"
    /\ IF operation \in {"*", "+"}
       THEN /\ temp' = CycId(G) /\ i' = 0 /\ pc' = "baby" /\ ret' = ret
       ELSE /\ ret' = InvalidOperation /\ pc' = "done" /\ UNCHANGED <<temp, i>>
    /\ UNCHANGED <<fn, G, operation, g, h, u, v, w, bound, n, t, m, T,
                   gm_inv, vm_inv, baby, giant>>

\* for i in range(m): T[temp] = i; temp = temp * g
DlpBaby ==
    /\ pc = "baby" /\ fn = "bsgs_dlp" /\ i < m
    /\ T' = Store(T, temp, i)
    /\ temp' = CycOp(G, temp, g)
    /\ i' = i + 1 /\ baby' = baby + 1
    /\ UNCHANGED <<pc, fn, G, operation, g, h, u, v, w, bound, n, t, m,
                   gm_inv, vm_inv, giant, ret>>

\* mutant of DlpStepInv: the giant step goes forward, gm_inv = g^m
DlpStepInvForward ==
    /\ pc = "baby" /\ fn = "bsgs_dlp" /\ i = m
    /\ gm_inv' = CycPow(G, g, m)
    /\ temp' = h /\ i' = 0 /\ pc' = "giant"
    /\ UNCHANGED <<fn, G, operation, g, h, u, v, w, bound, n, t, m, T,
                   vm_inv, baby, giant, ret>>

\* gm_inv = g^(-m) (gm_neg = -m*g); temp = h
DlpStepInv ==
    /\ pc = "baby" /\ fn = "bsgs_dlp" /\ i = m
    /\ gm_inv' = CycPow(G, g, 0 - m)
    /\ temp' = h /\ i' = 0 /\ pc' = "giant"
    /\ UNCHANGED <<fn, G, operation, g, h, u, v, w, bound, n, t, m, T,
                   vm_inv, baby, giant, ret>>

\* mutant of DlpGiant: the giant index is not scaled by m in the result
DlpGiantUnscaled ==
    /\ pc = "giant" /\ fn = "bsgs_dlp" /\ i < m
    /\ giant' = giant + 1
    /\ IF temp \in DOMAIN T
       THEN /\ ret' = Return(T[temp] + i) /\ pc' = "done" /\ UNCHANGED <<temp, i>>
       ELSE /\ temp' = CycOp(G, temp, gm_inv) /\ i' = i + 1 /\ UNCHANGED <<ret, pc>>
    /\ UNCHANGED <<fn, G, operation, g, h, u, v, w, bound, n, t, m, T,
                   gm_inv, vm_inv, baby>>

\* for i in range(m): if temp in T: return T[temp] + i * m; temp = temp * gm_inv
DlpGiant ==
    /\ pc = "giant" /\ fn = "bsgs_dlp" /\ i < m
    /\ giant' = giant + 1
    /\ IF temp \in DOMAIN T
       THEN /\ ret' = Return(T[temp] + i * m) /\ pc' = "done" /\ UNCHANGED <<temp, i>>
       ELSE /\ temp' = CycOp(G, temp, gm_inv) /\ i' = i + 1 /\ UNCHANGED <<ret, pc>>
    /\ UNCHANGED <<fn, G, operation, g, h, u, v, w, bound, n, t, m, T,
                   gm_inv, vm_inv, baby>>

\* raise ValueError(Log of h to the base g does not exist up to the bound)
DlpNotFound ==
    /\ pc = "giant" /\ fn = "bsgs_dlp" /\ i = m
    /\ ret' = NotFound /\ pc' = "done"
    /\ UNCHANGED <<fn, G, operation, g, h, u, v, w, bound, n, t, m, T, temp, i,
                   gm_inv, vm_inv, baby, giant>>

\* ------------------------------------------------------------ bsgs_sdlp
\* bsgs_sdlp(G, w, (u, v), bound): entry up to the start of the baby steps
SdlpEnter(GG, uu, vv, ww, b) ==
    /\ G' = GG /\ u' = uu /\ v' = vv /\ w' = ww /\ bound' = b
    /\ m' = CeilSqrt(b) /\ T' = EmptyTable /\ temp' = SdOne(GG) /\ i' = 0
    /\ fn' = "bsgs_sdlp" /\ pc' = "baby"
    /\ UNCHANGED <<operation, g, h, gm_inv, vm_inv, baby, giant, ret>>

\* a call with base (u, v), u = (g, sigma), v = (1, sigma^-1), and any target and bound
CallSdlp ==
    /\ pc = "idle"
    /\ \E GG \in SemidirectPlatforms :
         \E uu \in SdElems(GG), ww \in SdElems(GG), b \in 1..MaxBound :
           SdlpEnter(GG, uu, Partner(GG, uu), ww, b)
    /\ UNCHANGED <<n, t>>

\* for j in range(m): T[temp] = j; temp = u * temp * v
SdlpBaby ==
    /\ pc = "baby" /\ fn = "bsgs_sdlp" /\ i < m
    /\ T' = Store(T, temp, i)
    /\ temp' = SdMul(G, SdMul(G, u, temp), v)
    /\ i' = i + 1 /\ baby' = baby + 1
    /\ UNCHANGED <<pc, fn, G, operation, g, h, u, v, w, bound, n, t, m,
                   gm_inv, vm_inv, giant, ret>>

\* mutant of SdlpStepInv: the giant step goes forward, um_inv = u^m, vm_inv = v^m
SdlpStepInvForward ==
    /\ pc = "baby" /\ fn = "bsgs_sdlp" /\ i = m
    /\ gm_inv' = SdPow(G, u, m)
    /\ vm_inv' = SdPow(G, v, m)
    /\ temp' = w /\ i' = 0 /\ pc' = "giant"
    /\ UNCHANGED <<fn, G, operation, g, h, u, v, w, bound, n, t, m, T,
                   baby, giant, ret>>

\* mutant of SdlpStepInv: the right factor is not inverted, vm_inv = v^m
SdlpStepInvRightForward ==
    /\ pc = "baby" /\ fn = "bsgs_sdlp" /\ i = m
    /\ gm_inv' = SdPow(G, u, 0 - m)
    /\ vm_inv' = SdPow(G, v, m)
    /\ temp' = w /\ i' = 0 /\ pc' = "giant"
    /\ UNCHANGED <<fn, G, operation, g, h, u, v, w, bound, n, t, m, T,
                   baby, giant, ret>>

\* um_inv = u^(-m); vm_inv = v^(-m); temp = w
SdlpStepInv ==
    /\ pc = "baby" /\ fn = "bsgs_sdlp" /\ i = m
    /\ gm_inv' = SdPow(G, u, 0 - m)
    /\ vm_inv' = SdPow(G, v, 0 - m)
    /\ temp' = w /\ i' = 0 /\ pc' = "giant"
    /\ UNCHANGED <<fn, G, operation, g, h, u, v, w, bound, n, t, m, T,
                   baby, giant, ret>>

\* mutant of SdlpGiant: the giant step multiplies on the left only
SdlpGiantOneSided ==
    /\ pc = "giant" /\ fn = "bsgs_sdlp" /\ i < m
    /\ giant' = giant + 1
    /\ IF temp \in DOMAIN T
       THEN /\ ret' = Return(i * m + T[temp]) /\ pc' = "done" /\ UNCHANGED <<temp, i>>
       ELSE /\ temp' = SdMul(G, gm_inv, temp) /\ i' = i + 1
            /\ UNCHANGED <<ret, pc>>
    /\ UNCHANGED <<fn, G, operation, g, h, u, v, w, bound, n, t, m, T,
                   gm_inv, vm_inv, baby>>

\* for i in range(m): if temp in T: return i * m + T[temp]; temp = um_inv * temp * vm_inv
SdlpGiant ==
    /\ pc = "giant" /\ fn = "bsgs_sdlp" /\ i < m
    /\ giant' = giant + 1
    /\ IF temp \in DOMAIN T
       THEN /\ ret' = Return(i * m + T[temp]) /\ pc' = "done" /\ UNCHANGED <<temp, i>>
       ELSE /\ temp' = SdMul(G, SdMul(G, gm_inv, temp), vm_inv) /\ i' = i + 1
            /\ UNCHANGED <<ret, pc>>
    /\ UNCHANGED <<fn, G, operation, g, h, u, v, w, bound, n, t, m, T,
                   gm_inv, vm_inv, baby>>

\* raise ValueError(Log of w to the base (u, v) does not exist up to bound)
SdlpNotFound ==
    /\ pc = "giant" /\ fn = "bsgs_sdlp" /\ i = m
    /\ ret' = NotFound /\ pc' = "done"
    /\ UNCHANGED <<fn, G, operation, g, h, u, v, w, bound, n, t, m, T, temp, i,
                   gm_inv, vm_inv, baby, giant>>

\* ---------------------------------------------------- period (in the action)
RECURSIVE LeastFrom(_, _, _)
\* the least k >= from whose power of a has the base component of the identity
LeastFrom(GG, a, from) == IF BaseIsOne(GG, a, from) THEN from ELSE LeastFrom(GG, a, from + 1)

\* the period of a: the minimal r >= 1 with (a**r).g == one().g
TruePeriod(GG, a) == LeastFrom(GG, a, 1)

\* ------------------------------------------------------------ the driver
\* main.py: period = find_period(base_elem, rk), rk a multiple of the period;
\* target = base_elem**t; u = base_elem; v = G(1, x^-1); w = G.one(); w.g = target.g;
\* bsgs_sdlp(G, w, (u, v), period)
DriverSdlp ==
    /\ pc = "idle"
    /\ \E GG \in SemidirectPlatforms :
         \E base_elem \in SdElems(GG), rk \in 1..MaxN, tt \in 1..MaxT :
           /\ rk % TruePeriod(GG, base_elem) = 0
           /\ n' = rk /\ t' = tt
           /\ SdlpEnter(GG, base_elem, Partner(GG, base_elem),
                        WithBase(GG, SdPow(GG, base_elem, tt).g),
                        find_period(GG, base_elem, rk))

\* an n with three prime factors, beyond MaxN
ManyFactorInputs == {30}

\* find_period(u, n) for any element and any positive n
CallFindPeriod ==
    /\ pc = "idle"
    /\ \E GG \in SemidirectPlatforms :
         \E uu \in SdElems(GG), nn \in (1..MaxN) \cup ManyFactorInputs :
           /\ G' = GG /\ u' = uu /\ n' = nn
           /\ ret' = Return(find_period(GG, uu, nn))
    /\ fn' = "find_period" /\ pc' = "done"
    /\ UNCHANGED <<operation, g, h, v, w, bound, t, m, T, temp, i, gm_inv, vm_inv,
                   baby, giant>>

\* a_inv = ~a (the self-test of the platform files); u holds a, v holds ~a
CallInvert ==
    /\ pc = "idle"
    /\ \E GG \in SemidirectPlatforms :
         \E a \in SdElems(GG) :
           /\ G' = GG /\ u' = a /\ v' = SdInvert(GG, a)
    /\ fn' = "invert" /\ pc' = "done"
    /\ UNCHANGED <<operation, g, h, w, bound, n, t, m, T, temp, i, gm_inv, vm_inv,
                   baby, giant, ret>>

Next ==
    \/ CallDlp \/ DlpDispatch \/ DlpBaby \/ DlpStepInv \/ DlpGiant \/ DlpNotFound
    \/ CallSdlp \/ DriverSdlp \/ SdlpBaby \/ SdlpStepInv \/ SdlpGiant \/ SdlpNotFound
    \/ CallFindPeriod \/ CallInvert

Spec == Init /\ [][Next]_vars

\* ======================================================== properties
Done(f) == pc = "done" /\ fn = f

RECURSIVE CycOrderFrom(_, _, _)
CycOrderFrom(GG, a, k) ==
    IF CycPow(GG, a, k) = CycId(GG) THEN k ELSE CycOrderFrom(GG, a, k + 1)
\* the order of a: the least k >= 1 with a^k the identity
CycOrder(GG, a) == CycOrderFrom(GG, a, 1)

\* the exponents below k that take a to b
CycLogs(GG, a, b, k) == {e \in 0..(k - 1) : CycPow(GG, a, e) = b}

RECURSIVE SandwichSeq(_, _, _, _)
\* the iterates 0..k of P -> a * P * b from the identity, as a sequence
SandwichSeq(GG, a, b, k) ==
    IF k = 0 THEN <<SdOne(GG)>>
    ELSE LET s == SandwichSeq(GG, a, b, k - 1)
         IN Append(s, SdMul(GG, SdMul(GG, a, s[k]), b))

\* the k-th iterate of P -> a * P * b from the identity
SandwichIter(GG, a, b, k) == SandwichSeq(GG, a, b, k)[k + 1]

\* the exponents below k whose sandwich iterate is c
SandwichLogs(GG, a, b, c, k) == {e \in 0..(k - 1) : SandwichIter(GG, a, b, e) = c}

\* the bound of the call is find_period(u, N) for a multiple N of the period of u
BoundIsFoundPeriod ==
    \E N \in 1..MaxN : N % TruePeriod(G, u) = 0 /\ bound = find_period(G, u, N)

\* C1: a call bsgs_dlp(G, g^t, g, ord, op) with ord the order of g and 0 <= t < ord
\* returns exactly t, in the multiplicative and in the additive mode.
DlpRoundTrip ==
    (Done("bsgs_dlp") /\ operation = NativeOp(G) /\ bound = CycOrder(G, g))
        => \A tt \in 0..(bound - 1) : h = CycPow(G, g, tt) => ret = Return(tt)

\* C1 witness: an additive call with the order as bound whose answer needed a giant step
DlpRoundTripWitness ==
    /\ Done("bsgs_dlp") /\ operation = "+" /\ bound = CycOrder(G, g)
    /\ bound >= 5 /\ h = CycPow(G, g, bound - 1)
    /\ ret = Return(bound - 1) /\ giant >= 2

\* C2: with bound the period found by find_period and w the t-th sandwich iterate of
\* the identity under (u, v), 0 <= t < period, bsgs_sdlp returns exactly t.
SdlpRoundTrip ==
    (Done("bsgs_sdlp") /\ BoundIsFoundPeriod)
        => \A tt \in 0..(bound - 1) : w = SandwichIter(G, u, v, tt) => ret = Return(tt)

\* C2 witness: the last iterate before the period, found after a giant step
SdlpRoundTripWitness ==
    /\ Done("bsgs_sdlp") /\ BoundIsFoundPeriod /\ bound >= 5
    /\ w = SandwichIter(G, u, v, bound - 1)
    /\ ret = Return(bound - 1) /\ giant >= 2

\* C3: find_period(u, n) with n a positive multiple of the period of u returns the
\* period: the base component of u^r is that of the identity and no smaller positive
\* exponent passes that test.
PeriodExact ==
    (Done("find_period") /\ n % TruePeriod(G, u) = 0)
        => /\ ret = Return(TruePeriod(G, u))
           /\ BaseIsOne(G, u, ret.val)
           /\ \A d \in 1..(ret.val - 1) : ~BaseIsOne(G, u, d)

\* C3 witness: two primes of n are stripped, one of them twice, down to a period > 1
PeriodExactWitness ==
    /\ Done("find_period") /\ n = 12 /\ TruePeriod(G, u) = 2 /\ ret = Return(2)

\* C4 as stated: when some exponent below the bound takes g to h, bsgs_dlp returns the
\* unique t with 0 <= t < bound and g^t = h, for every bound >= 1.
DlpUniqueBelowBound ==
    (Done("bsgs_dlp") /\ operation = NativeOp(G) /\ CycLogs(G, g, h, bound) # {})
        => /\ ret.kind = "value"
           /\ CycLogs(G, g, h, bound) = {ret.val}

\* C4 amended: bsgs_dlp then returns a t with 0 <= t < bound and g^t = h, and that t is
\* the only such exponent when the bound does not exceed the order of g.
DlpBelowBound ==
    (Done("bsgs_dlp") /\ operation = NativeOp(G) /\ CycLogs(G, g, h, bound) # {})
        => /\ ret.kind = "value"
           /\ ret.val \in CycLogs(G, g, h, bound)
           /\ bound <= CycOrder(G, g) => CycLogs(G, g, h, bound) = {ret.val}

\* C4 witness: a bound that is no square and exceeds the order of g, answered after a
\* giant step
DlpBelowBoundWitness ==
    /\ Done("bsgs_dlp") /\ operation = NativeOp(G)
    /\ bound > CycOrder(G, g) /\ m * m > bound
    /\ ret.kind = "value" /\ ret.val \in CycLogs(G, g, h, bound) /\ giant >= 2

\* C5: when the least exponent taking g to h (the least exponent whose sandwich iterate
\* is w) is >= bound, bsgs_dlp and bsgs_sdlp raise the not-found error, for every bound.
BoundViolationRaises ==
    /\ (Done("bsgs_dlp") /\ operation = NativeOp(G)
          /\ CycLogs(G, g, h, CycOrder(G, g)) # {}
          /\ CycLogs(G, g, h, bound) = {})
        => ret = NotFound
    /\ (Done("bsgs_sdlp")
          /\ SandwichLogs(G, u, v, w, TruePeriod(G, u)) # {}
          /\ SandwichLogs(G, u, v, w, bound) = {})
        => ret = NotFound

\* C6: find_period(u, n) returns a positive divisor of n for every element u and every
\* positive n, also when n is no multiple of the period of u.
PeriodDivides ==
    Done("find_period") => ret.kind = "value" /\ ret.val >= 1 /\ n % ret.val = 0

\* C6 witness: n has two prime factors and is no multiple of the period; the result
\* divides n and is not the period
PeriodDividesWitness ==
    /\ Done("find_period") /\ n = 6 /\ n % TruePeriod(G, u) # 0
    /\ ret.kind = "value" /\ n % ret.val = 0 /\ ret.val # TruePeriod(G, u)

\* C7: in the driver, with period = find_period(u, N), N a multiple of the period, and
\* w = (base component of u^t, identity automorphism) for any t >= 1, bsgs_sdlp with
\* bound period returns t mod period.
DriverRecovery ==
    (Done("bsgs_sdlp") /\ t >= 1)
        => /\ bound = find_period(G, u, n)
           /\ w = WithBase(G, SdPow(G, u, t).g)
           /\ ret = Return(t % bound)

\* C7 witness: a planted exponent beyond the period, recovered after a giant step
DriverRecoveryWitness ==
    /\ Done("bsgs_sdlp") /\ t > bound /\ n > bound /\ bound >= 5
    /\ ret = Return(t % bound) /\ giant >= 2

\* C8: on both semidirect platforms the element computed by __invert__ is a two-sided
\* inverse: a * ~a == one() and ~a * a == one().
InverseTwoSided ==
    Done("invert") => SdMul(G, u, v) = SdOne(G) /\ SdMul(G, v, u) = SdOne(G)

\* C8 witness: an element with a base component and an automorphism that are not trivial
InverseTwoSidedWitness ==
    /\ Done("invert") /\ u.g # SdOne(G).g /\ u.x # SdOne(G).x
    /\ v.g # u.g /\ SdMul(G, u, v) = SdOne(G)

\* C9: bsgs_dlp with an operation other than "*" and "+" raises the invalid-operation
\* error at once: it returns no value and runs no baby step and no giant step.
InvalidOperationImmediate ==
    (fn = "bsgs_dlp" /\ operation \notin {"*", "+"})
        => /\ pc \in {"dispatch", "done"}
           /\ baby = 0 /\ giant = 0 /\ T = EmptyTable
           /\ ret.kind # "value"
           /\ pc = "done" => ret = InvalidOperation

\* C9 witness: the error was raised
InvalidOperationWitness ==
    Done("bsgs_dlp") /\ operation = "?" /\ ret = InvalidOperation /\ bound > 1

\* the element produced by baby step j of the running call
BabyElem(j) ==
    IF fn = "bsgs_dlp" THEN CycPow(G, g, j) ELSE SandwichIter(G, u, v, j)

\* C10: after the baby-step loop the table maps every recorded element to the smallest
\* step index that produced it, also when an element recurs within the m baby steps.
TableKeepsFirstIndex ==
    (pc = "giant" /\ fn \in {"bsgs_dlp", "bsgs_sdlp"})
        => \A x \in DOMAIN T :
             /\ BabyElem(T[x]) = x
             /\ \A j \in 0..(m - 1) : BabyElem(j) = x => T[x] <= j

\* the injections of 1..k into itself
IndexOrders(k) == {f \in [1..k -> 1..k] : \A a, b \in 1..k : f[a] = f[b] => a = b}

RECURSIVE Reorder(_, _, _)
\* the first k entries of s taken in the order f
Reorder(s, f, k) == IF k = 0 THEN <<>> ELSE Append(Reorder(s, f, k - 1), s[f[k]])

\* the orders in which the factors of k can be run through
FactorOrders(k) == {Reorder(Factor(k), f, Len(Factor(k))) : f \in IndexOrders(Len(Factor(k)))}

\* C11: the strip loop of find_period run over the prime factors of n in any order ends
\* with the length that find_period returns, for every element u and positive n.
FactorOrderIndependent ==
    Done("find_period")
        => \A facs \in FactorOrders(n) : StripAll(G, u, n, facs) = ret.val

\* C11 witness: n has three prime factors, two of them are stripped, and the descending
\* order ends with the same length
FactorOrderWitness ==
    /\ Done("find_period") /\ n = 30 /\ ret = Return(3)
    /\ Cardinality(FactorOrders(n)) = 6
    /\ StripAll(G, u, n, <<<<5, 1>>, <<3, 1>>, <<2, 1>>>>) = 3

\* C12: in the giant-step loop of bsgs_sdlp, um_inv * temp * vm_inv takes the k-th
\* sandwich iterate, k >= m, to the (k - m)-th; hence with w the t-th iterate, after i
\* iterations with i * m <= t the variable temp is the (t - i * m)-th iterate.
GiantStepUndoesM ==
    (pc = "giant" /\ fn = "bsgs_sdlp")
        => LET iter == SandwichSeq(G, u, v, MaxT)
           IN /\ \A k \in m..MaxT :
                   temp = iter[k + 1]
                       => SdMul(G, SdMul(G, gm_inv, temp), vm_inv) = iter[k - m + 1]
              /\ \A tt \in 0..MaxT :
                   (w = iter[tt + 1] /\ i * m <= tt) => temp = iter[tt - i * m + 1]

\* C12 witness: under an automorphism that is not the identity, a giant step has taken
\* the t-th iterate w to a different element, the (t - i * m)-th iterate
GiantStepWitness ==
    /\ pc = "giant" /\ fn = "bsgs_sdlp" /\ i >= 1 /\ m >= 2
    /\ u.x # SdOne(G).x /\ temp # w
    /\ \E tt \in (i * m)..MaxT :
         /\ w = SandwichIter(G, u, v, tt)
         /\ temp = SandwichIter(G, u, v, tt - i * m)

====
